---------------------------- MODULE Spec2Model ----------------------------
(***************************************************************************)
(* Booking confirmation and daily settlement of futbol-mp-backend.         *)
(*                                                                         *)
(* The repository holds three successive versions of server.js:            *)
(*   "v1"  src/server.js lines 1-338      webhook confirms a pending       *)
(*                                         booking, no capacity, no ledger  *)
(*   "v2"  src/unnamed/part_000           v1 plus the daily settlement      *)
(*   "v3"  src/server.js lines 340-1097   capacity-aware transaction,       *)
(*                                         manual checks, daily settlement  *)
(* The variable variant says which one is deployed.  Spec is the v3        *)
(* server, SpecLegacy the v1 and v2 servers, SpecAll any of the three.     *)
(* SpecIncomplete is the v3 server with a manual check that lacks a field, *)
(* SpecRetry the v3 server with its requests served one after the other,   *)
(* and SpecHelpers calls the capacity and occupancy helpers on stored      *)
(* data of any shape.  SpecPreference is POST /mp/create-preference,       *)
(* SpecPipeline one notification delivered again until it is processed,    *)
(* SpecSlots confirmations for several slots of a facility, and SpecLedger *)
(* concurrent calls of upsertDailySettlement.                              *)
(*                                                                         *)
(* Firestore documents are records; a collection is a function from        *)
(* document ids to records.  db.runTransaction is one atomic step: it      *)
(* either commits all of its writes or throws and writes nothing.          *)
(* Every await of a handler is a separate step, so handlers interleave at  *)
(* their awaits.                                                           *)
(***************************************************************************)
EXTENDS Integers, FiniteSets, Sequences, TLC

\* Number of HTTP requests (webhook deliveries, approve and reject calls)
\* that one behaviour serves.
MaxReq == 2

\* const COMMISSION_FIXED = 1000
COMMISSION_FIXED == 1000

--------------------------------------------------------------------------
(* JavaScript values that the handlers convert between.                   *)

\* A JS number, a JS string, NaN and undefined/null, in one record shape.
Num(n) == [k |-> "num", n |-> n, s |-> ""]
Str(s) == [k |-> "str", n |-> 0, s |-> s]
NaN == [k |-> "nan", n |-> 0, s |-> ""]
Undef == [k |-> "undef", n |-> 0, s |-> ""]

\* The numeric strings the model uses, with their values.
Numerals == {<<"0", 0>>, <<"1", 1>>, <<"2", 2>>, <<"5", 5>>, <<"7", 7>>}

\* String.prototype.trim().toLowerCase() on the strings the model uses.
TrimLower(s) ==
  CASE s = " 7" -> "7"
    [] s = "F7" -> "f7"
    [] OTHER -> s

\* Number(v): a numeral (surrounding blanks and leading zeros allowed) is
\* its value, the empty string is 0, anything else is NaN.
ToNumber(v) ==
  CASE v.k = "num" -> v
    [] v.k = "nan" -> NaN
    [] v.k = "undef" -> NaN
    [] v.k = "str" ->
         IF v.s = "" THEN Num(0)
         ELSE IF v.s = "07" THEN Num(7)
         ELSE IF \E p \in Numerals : p[1] = TrimLower(v.s)
                THEN Num((CHOOSE p \in Numerals : p[1] = TrimLower(v.s))[2])
                ELSE NaN

\* String(v) and `${v}`.
ToStr(v) ==
  CASE v.k = "str" -> v.s
    [] v.k = "nan" -> "NaN"
    [] v.k = "undef" -> "undefined"
    [] v.k = "num" ->
         IF \E p \in Numerals : p[2] = v.n
           THEN (CHOOSE p \in Numerals : p[2] = v.n)[1]
           ELSE "?"

\* function normalizeTipoForQuery(tipo): a pure numeral becomes the number,
\* anything else the trimmed lower-case string.
normalizeTipoForQuery(tipo) ==
  LET n == ToNumber(tipo)
  IN  IF n.k = "num" /\ ToStr(n) = TrimLower(ToStr(tipo))
        THEN n
        ELSE Str(TrimLower(ToStr(tipo)))

\* JS truthiness of a string (used by `a && b` guards on reference parts).
Truthy(s) == s # ""

--------------------------------------------------------------------------
(* external_reference = `${complejoId}|${fecha}|${tipo}|${hora}`          *)

\* A reference is a sequence of characters; only "|" matters, so every
\* other run of characters is one token.
RECURSIVE SplitFrom(_, _, _)
SplitFrom(ref, i, cur) ==
  IF i > Len(ref) THEN <<cur>>
  ELSE IF ref[i] = "|" THEN <<cur>> \o SplitFrom(ref, i + 1, "")
  ELSE SplitFrom(ref, i + 1, ref[i])

\* ref.split('|')
Split(ref) == SplitFrom(ref, 1, "")

\* const [complejoId, fecha, tipo, hora] = ref.split('|'): a missing part is
\* undefined, which is falsy like the empty string.
Part(parts, i) == IF i <= Len(parts) THEN parts[i] ELSE ""

--------------------------------------------------------------------------
(* More JavaScript: booleans, truthiness, ?? and Number(x) || d.           *)

Bool(b) == [k |-> "bool", n |-> IF b THEN 1 ELSE 0, s |-> ""]

\* !!v
JsTruthy(v) ==
  CASE v.k = "bool" -> v.n = 1
    [] v.k = "num" -> v.n # 0
    [] v.k = "str" -> v.s # ""
    [] OTHER -> FALSE

\* a ?? b
Coalesce(a, b) == IF a.k = "undef" THEN b ELSE a

\* Number(v) || d, as an integer
NumberOr(v, d) ==
  LET n == ToNumber(v) IN IF n.k = "num" /\ n.n # 0 THEN n.n ELSE d

--------------------------------------------------------------------------
(* The payment processor: what payment.get({ id }) answers.               *)

PaymentIds == {"P1", "P2", "P3", "P4"}

SlotRef == <<"F", "|", "2024-05-01", "|", "7", "|", "18:00">>
ShortRef == <<"F", "|", "2024-05-01", "|", "7">>

\* metadata as /mp/create-preference of v2 and v3 writes it
Metadata(payFull, pct, base, fraction) ==
  [payFull |-> Bool(payFull),
   deposit_pct |-> IF payFull THEN Undef ELSE Num(pct),
   basePrice |-> Num(base),
   base_fraction_amount |-> Num(fraction),
   commission_fixed |-> Num(COMMISSION_FIXED),
   total |-> Num(fraction + COMMISSION_FIXED),
   manual |-> Undef,
   manual_amount |-> Undef]

\* The statuses the processor may report for a payment id.
MPStatuses(id) ==
  IF id = "P3" THEN {"rejected", "pending", "in_process"} ELSE {"approved"}

\* The payment record of id, reported with the given status.
MPPayment(id, status) ==
  [id |-> id,
   status |-> status,
   external_reference |-> IF id = "P4" THEN ShortRef ELSE SlotRef,
   transaction_amount |-> IF id = "P2" THEN Num(1900) ELSE Num(4000),
   metadata |-> IF id = "P2" THEN Metadata(FALSE, 30, 3000, 900)
                             ELSE Metadata(TRUE, 30, 3000, 3000)]

--------------------------------------------------------------------------
(* Firestore: complejos/{id}, complejos/{id}/reservas/{id}, checks/{id},   *)
(* liquidaciones/{id}/days/{fecha} and .../pagos/{paymentId}.              *)

NoPago == [mp_payment_id |-> "", manual |-> FALSE]

Reserva(tipo, estado, pago) ==
  [complejoId |-> "F", fecha |-> "2024-05-01", hora |-> "18:00",
   tipo |-> tipo, estado |-> estado, pago |-> pago]

\* The bookings the store may hold when the server starts: none, one or two
\* provisional ones, one already confirmed.  tipo is stored as a number by
\* some writers and as a string by others.
InitialReservas ==
  { <<>>,
    <<Reserva(Num(7), "pending", NoPago)>>,
    <<Reserva(Num(7), "pending", NoPago), Reserva(Str("7"), "pendiente", NoPago)>>,
    <<Reserva(Str("7"), "confirmada", [mp_payment_id |-> "P0", manual |-> FALSE])>> }

\* complejos/F: absent, or with canchas["7"] set.
InitialComplejos ==
  { <<>>,
    [F |-> [canchas |-> [x \in {"7"} |-> 1]]],
    [F |-> [canchas |-> [x \in {"7"} |-> 2]]] }

CheckIds == {"K1", "K9"}

\* checks/K1 is a pending manual payment for the slot; checks/K9 does not exist.
InitialChecks ==
  [K1 |-> [estado |-> "pending", userId |-> "u1", complejoId |-> "F",
           fecha |-> "2024-05-01", hora |-> "18:00", tipo |-> Num(7),
           monto |-> Num(5000), reason |-> ""]]

--------------------------------------------------------------------------
(* Capacity and occupancy, as read inside the booking transaction.        *)

\* Faulty variant of Query: the filter on hora is missing.
QueryMut(rs, complejoId, fecha, tipo, hora, estados) ==
  { id \in DOMAIN rs :
      /\ rs[id].complejoId = complejoId
      /\ rs[id].fecha = fecha
      /\ rs[id].tipo = tipo
      /\ rs[id].estado \in estados }

\* reservasRef.where('fecha','==',fecha).where('tipo','==',tipo)
\*            .where('hora','==',hora).where('estado','in',estados)
\* over complejos/{complejoId}/reservas.  Firestore compares a number and a
\* string as different values.
Query(rs, complejoId, fecha, tipo, hora, estados) ==
  { id \in DOMAIN rs :
      /\ rs[id].complejoId = complejoId
      /\ rs[id].fecha = fecha
      /\ rs[id].tipo = tipo
      /\ rs[id].hora = hora
      /\ rs[id].estado \in estados }

\* .limit(n): the first n documents in document-id order.
Limit(ids, n) == { x \in ids : Cardinality({ y \in ids : y < x }) < n }

\* const capacidad = Number(canchas[key1] ?? canchas[key2] ?? 1) || 1
Capacidad(cs, complejoId, tipoNorm) ==
  LET canchas == IF complejoId \in DOMAIN cs THEN cs[complejoId].canchas ELSE <<>>
      key1 == ToStr(tipoNorm)
      key2 == ToStr(ToNumber(tipoNorm))
      raw == IF key1 \in DOMAIN canchas THEN canchas[key1]
             ELSE IF key2 \in DOMAIN canchas THEN canchas[key2]
             ELSE 1
  IN  IF raw = 0 THEN 1 ELSE raw

\* async function getCapacityForTipo({ complejoId, tipo }): the keys are built
\* from tipo as given; return cap > 0 ? cap : 1.
getCapacityForTipo(cs, complejoId, tipo) ==
  IF complejoId \notin DOMAIN cs THEN 1
  ELSE LET canchas == cs[complejoId].canchas
           key1 == ToStr(tipo)
           key2 == ToStr(ToNumber(tipo))
           cap == IF key1 \in DOMAIN canchas THEN canchas[key1]
                  ELSE IF key2 \in DOMAIN canchas THEN canchas[key2]
                  ELSE 1
       IN  IF cap > 0 THEN cap ELSE 1

\* Faulty variant of TipoForms: only the normalised representation is queried.
TipoFormsMut(tipoNorm) == {tipoNorm}

\* The tipo values the transaction queries: the normalised one and its
\* other representation (string of a number, number of a numeric string).
TipoForms(tipoNorm) ==
  IF tipoNorm.k = "num"
    THEN {tipoNorm, Str(ToStr(tipoNorm))}
    ELSE IF ToNumber(tipoNorm).k = "num"
           THEN {tipoNorm, ToNumber(tipoNorm)}
           ELSE {tipoNorm}

\* Faulty variant of Confirmadas: it queries the normalised tipo only, so a
\* booking stored under the other representation is not counted.
ConfirmadasMut(rs, complejoId, fecha, tipoNorm, hora, capacidad) ==
  Cardinality(Limit(Query(rs, complejoId, fecha, tipoNorm, hora, {"confirmada"}),
                    capacidad + 2))

\* Faulty variant of QueryLimit: the limit is below the capacity.
QueryLimitMut(capacidad) == capacidad - 1

\* .limit(capacidad + 2)
QueryLimit(capacidad) == capacidad + 2

\* ids.size: the confirmed bookings of the slot found by the limited
\* queries, each document counted once.
Confirmadas(rs, complejoId, fecha, tipoNorm, hora, capacidad) ==
  Cardinality(UNION { Limit(Query(rs, complejoId, fecha, f, hora, {"confirmada"}),
                            QueryLimit(capacidad)) : f \in TipoForms(tipoNorm) })

\* async function countConfirmedAtSlot({ complejoId, fecha, tipo, hora }):
\* the same queries outside a transaction and without a limit; ids.size.
countConfirmedAtSlot(rs, complejoId, fecha, tipo, hora) ==
  LET tipoNorm == normalizeTipoForQuery(tipo)
  IN  Cardinality(UNION { Query(rs, complejoId, fecha, f, hora, {"confirmada"}) :
                            f \in TipoForms(tipoNorm) })

\* Faulty variant of SinCupos: an off-by-one comparison.
SinCuposMut(confirmadas, capacidad) == confirmadas > capacidad

\* if (confirmadas >= capacidad) throw new Error('Sin cupos para ese horario')
SinCupos(confirmadas, capacidad) == confirmadas >= capacidad

\* Faulty variant of PendingForms: the alternate representation is not
\* queried.
PendingFormsMut(tipoNorm) == <<tipoNorm>>

\* The pending queries of the mutator, in the order they are awaited.
PendingForms(tipoNorm) ==
  IF tipoNorm.k = "num"
    THEN <<tipoNorm, Str(ToStr(tipoNorm))>>
    ELSE IF ToNumber(tipoNorm).k = "num"
           THEN <<tipoNorm, ToNumber(tipoNorm)>>
           ELSE <<tipoNorm>>

\* targetRef: docs[0] of the first pending query that is not empty, 0 if
\* every one is empty.
PendingTarget(rs, complejoId, fecha, tipoNorm, hora) ==
  LET forms == PendingForms(tipoNorm)
      hit(i) == Limit(Query(rs, complejoId, fecha, forms[i], hora,
                            {"pending", "pendiente"}), 1)
      found == { i \in 1..Len(forms) : hit(i) # {} }
  IN  IF found = {} THEN 0
      ELSE LET first == CHOOSE i \in found : \A j \in found : i <= j
           IN  CHOOSE id \in hit(first) : TRUE

\* Faulty variant of Mutator: the pending booking found is deleted and
\* nothing is written in its place.
MutatorMut(rs, complejoId, fecha, tipoNorm, hora, payload) ==
  LET target == PendingTarget(rs, complejoId, fecha, tipoNorm, hora)
  IN  IF target = 0
        THEN [reservas |-> Append(rs, [complejoId |-> complejoId, fecha |-> fecha,
                                       hora |-> hora, tipo |-> tipoNorm,
                                       estado |-> "confirmada", pago |-> payload.pago]),
              id |-> Len(rs) + 1]
        ELSE [reservas |-> SubSeq(rs, 1, target - 1)
                             \o SubSeq(rs, target + 1, Len(rs)),
              id |-> target]

\* The mutator of upsertConfirmedAtSlot: confirm the pending booking found,
\* or create a confirmed one under a fresh id.  payload is payloadToMerge.
Mutator(rs, complejoId, fecha, tipoNorm, hora, payload) ==
  LET target == PendingTarget(rs, complejoId, fecha, tipoNorm, hora)
  IN  IF target = 0
        THEN [reservas |-> Append(rs, [complejoId |-> complejoId, fecha |-> fecha,
                                       hora |-> hora, tipo |-> tipoNorm,
                                       estado |-> "confirmada", pago |-> payload.pago]),
              id |-> Len(rs) + 1]
        ELSE [reservas |-> [rs EXCEPT ![target].estado = "confirmada",
                                      ![target].pago = payload.pago],
              id |-> target]

\* Faulty variant of confirmWithCapacityTx: the mutator's write is kept even
\* when the capacity check throws.
confirmWithCapacityTxMut(cs, rs, complejoId, fecha, tipo, hora, payload) ==
  LET tipoNorm == normalizeTipoForQuery(tipo)
      capacidad == Capacidad(cs, complejoId, tipoNorm)
      confirmadas == Confirmadas(rs, complejoId, fecha, tipoNorm, hora, capacidad)
      m == Mutator(rs, complejoId, fecha, tipoNorm, hora, payload)
  IN  [out |-> IF SinCupos(confirmadas, capacidad) THEN "sin_cupos" ELSE "ok",
       reservas |-> m.reservas,
       id |-> IF SinCupos(confirmadas, capacidad) THEN 0 ELSE m.id,
       confirmadas |-> confirmadas]

\* confirmWithCapacityTx: the body of the transaction.  out is "ok" when the
\* mutator ran and "sin_cupos" when the capacity check threw.
confirmWithCapacityTx(cs, rs, complejoId, fecha, tipo, hora, payload) ==
  LET tipoNorm == normalizeTipoForQuery(tipo)
      capacidad == Capacidad(cs, complejoId, tipoNorm)
      confirmadas == Confirmadas(rs, complejoId, fecha, tipoNorm, hora, capacidad)
  IN  IF SinCupos(confirmadas, capacidad)
        THEN [out |-> "sin_cupos", reservas |-> rs, id |-> 0,
              confirmadas |-> confirmadas]
        ELSE LET m == Mutator(rs, complejoId, fecha, tipoNorm, hora, payload)
             IN  [out |-> "ok", reservas |-> m.reservas, id |-> m.id,
                  confirmadas |-> confirmadas]

\* upsertConfirmedAtSlot({ complejoId, fecha, tipo, hora, payloadToMerge })
upsertConfirmedAtSlot(cs, rs, complejoId, fecha, tipo, hora, payload) ==
  confirmWithCapacityTx(cs, rs, complejoId, fecha, tipo, hora, payload)

--------------------------------------------------------------------------
(* The daily settlement ledger.                                           *)

ZeroDay ==
  [count_total |-> 0, count_full |-> 0, count_deposit |-> 0,
   sum_total_charged |-> 0, sum_commission |-> 0, sum_base_fraction |-> 0,
   sum_net_to_complex |-> 0, pagado |-> FALSE]

\* const commission = ...: v3 defaults to 0, v2 to COMMISSION_FIXED.
Commission(v, metadata) ==
  IF v = "v2"
    THEN NumberOr(Coalesce(metadata.commission_fixed, Num(COMMISSION_FIXED)),
                  COMMISSION_FIXED)
    ELSE NumberOr(Coalesce(metadata.commission_fixed, Num(0)), 0)

\* const baseFraction = ...: only v3 falls back to manual_amount.
BaseFraction(v, metadata) ==
  IF v = "v2"
    THEN NumberOr(Coalesce(metadata.base_fraction_amount, Num(0)), 0)
    ELSE NumberOr(Coalesce(metadata.base_fraction_amount,
                           Coalesce(metadata.manual_amount, Num(0))), 0)

\* const totalCharged = ...
TotalCharged(v, info) ==
  IF v = "v2"
    THEN NumberOr(Coalesce(info.metadata.total,
                           Coalesce(info.transaction_amount, Num(0))), 0)
    ELSE NumberOr(Coalesce(info.metadata.total,
                           Coalesce(info.transaction_amount,
                                    Num(BaseFraction(v, info.metadata)))), 0)

\* Faulty variant of InitialisedDay: the zeros are written on every call.
InitialisedDayMut(days, dayKey) == ZeroDay

\* if (!daySnap.exists) { tx.set(dayDoc, { ..., count_total: 0, ... }) }:
\* the aggregate the increments apply to.
InitialisedDay(days, dayKey) ==
  IF dayKey \in DOMAIN days THEN days[dayKey] ELSE ZeroDay

\* Faulty variant of NetToComplex: the commission is taken off the net.
NetToComplexMut(baseFraction, commission) == baseFraction - commission

\* sum_net_to_complex: FieldValue.increment(baseFraction)
NetToComplex(baseFraction, commission) == baseFraction

\* Faulty variant of AlreadySettled: the existence guard is missing.
AlreadySettledMut(pagos, key) == FALSE

\* if (pagoSnap.exists) return;
AlreadySettled(pagos, key) == key \in DOMAIN pagos

\* upsertDailySettlement({ complejoId, fecha, paymentInfo }) of variant v on
\* the ledger L = [pagos, days]: the ledger after the transaction committed.
\* The body reads dayDoc (tx.get) after it has queued the write of pagoDoc;
\* the read sees the day as it was when the transaction started, and the two
\* tx.set on dayDoc apply in order (zeros, then the increments).  A
\* transaction that the store refuses or aborts is StorageError below; the
\* Firestore SDK refuses a tx.get that follows a tx.set ("Firestore
\* transactions require all reads to be executed before all writes"), which
\* is the case of every call for a payment id without a line item.
\* createdAt is the server's time at the write; the server's clock is taken
\* to be the number of line items the ledger holds, which grows with every
\* line item written.
upsertDailySettlement(v, L, complejoId, fecha, info) ==
  LET isFull == JsTruthy(info.metadata.payFull)
      commission == Commission(v, info.metadata)
      baseFraction == BaseFraction(v, info.metadata)
      totalCharged == TotalCharged(v, info)
      dayKey == <<complejoId, fecha>>
      pagoKey == <<complejoId, fecha, info.id>>
      day == InitialisedDay(L.days, dayKey)
      line == [mp_payment_id |-> info.id, status |-> info.status,
               createdAt |-> Cardinality(DOMAIN L.pagos),
               total_charged |-> totalCharged, commission |-> commission,
               base_fraction |-> baseFraction, payFull |-> isFull,
               manual |-> JsTruthy(info.metadata.manual)]
      newDay == [day EXCEPT
                   !.count_total = @ + 1,
                   !.count_full = @ + (IF isFull THEN 1 ELSE 0),
                   !.count_deposit = @ + (IF isFull THEN 0 ELSE 1),
                   !.sum_total_charged = @ + totalCharged,
                   !.sum_commission = @ + commission,
                   !.sum_base_fraction = @ + baseFraction,
                   !.sum_net_to_complex = @ + NetToComplex(baseFraction, commission)]
  IN  IF ~Truthy(complejoId) \/ ~Truthy(fecha) THEN L
      ELSE IF AlreadySettled(L.pagos, pagoKey) THEN L
      ELSE [pagos |-> (pagoKey :> line) @@ L.pagos,
            days |-> (dayKey :> newDay) @@ L.days]

--------------------------------------------------------------------------
(* State.                                                                 *)

VARIABLES
  variant,    \* which server.js is deployed: "v1", "v2" or "v3"
  complejos,  \* complejos/{id}: the facility documents (read only)
  reservas,   \* complejos/F/reservas: document id -> booking
  checks,     \* checks/{id}: manual payment requests
  pagos,      \* liquidaciones/.../pagos: <<complejoId, fecha, paymentId>> -> line item
  days,       \* liquidaciones/.../days: <<complejoId, fecha>> -> daily aggregate
  req         \* the HTTP requests being served, and what each has done

vars == <<variant, complejos, reservas, checks, pagos, days, req>>

Reqs == 1..MaxReq

\* A request without query parameters and without a body.
NoNotif == [qType |-> "", qDataId |-> "", bType |-> "", bDataId |-> ""]

\* A request that has not arrived yet.
Idle ==
  [kind |-> "idle", pc |-> "idle", arg |-> "", fetch |-> "none", status |-> "",
   tx |-> "none", confirmadas |-> 0, id |-> 0, prior |-> 0, wr |-> 0,
   ws |-> "none", http |-> 0, dup |-> FALSE, reason |-> "", notif |-> NoNotif]

\* Requests arrive in index order (their indices carry no meaning).
CanStart(r) ==
  /\ req[r].kind = "idle"
  /\ IF r = 1 THEN TRUE ELSE req[r - 1].kind # "idle"

\* The notifications POST /mp/webhook receives.  q* are query parameters
\* (?type=payment&data.id=P1); b* is the JSON body {type, data: {id}}.
Notifications ==
  { [qType |-> "payment", qDataId |-> p, bType |-> "", bDataId |-> ""] : p \in PaymentIds }
  \cup { [qType |-> "merchant_order", qDataId |-> "P1", bType |-> "", bDataId |-> ""],
         [qType |-> "", qDataId |-> "", bType |-> "payment", bDataId |-> "P1"],
         [qType |-> "payment", qDataId |-> "", bType |-> "", bDataId |-> "P1"] }

\* const { type, 'data.id': dataId } = { ...req.query, ...req.body?.data }:
\* body.data holds the key id, not the keys type and data.id, so both come
\* from the query string.
NotifType(n) == n.qType
\* const paymentId = req.query?.['data.id'] || dataId
NotifPaymentId(n) == n.qDataId
\* String(type).toLowerCase() === 'payment' && paymentId
Recognised(n) == NotifType(n) = "payment" /\ Truthy(NotifPaymentId(n))

\* Faulty variant of IsApproved: everything but a rejection passes.
IsApprovedMut(info) == info.status # "rejected"

\* if (info.status === 'approved')
IsApproved(info) == info.status = "approved"

\* if (complejoId && fecha && tipo && hora)
Resolvable(parts) ==
  /\ Truthy(Part(parts, 1)) /\ Truthy(Part(parts, 2))
  /\ Truthy(Part(parts, 3)) /\ Truthy(Part(parts, 4))

\* res.sendStatus(200) at the end of the webhook's try block; res.json(r) of
\* /checks/:id/approve and /reject answers 200 as well.
OkStatus == 200

\* Faulty variant of CatchStatus: every catch block answers 400.
CatchStatusMut(kind) == 400

\* The status the catch block of a handler answers with: the webhook
\* res.sendStatus(200), /checks/:id/approve and /reject res.status(400).
CatchStatus(kind) == IF kind = "webhook" THEN 200 ELSE 400

\* mp_payment_id: `manual_${checkId}`
ManualId(checkId) == "manual_" \o checkId

\* The approval id a request acts for.
ApprovalId(q) == IF q.kind = "approve" THEN ManualId(q.arg) ELSE q.arg

\* The booking that already carries an approval id, 0 if none does.
PriorBooking(rs, pid) ==
  LET S == { id \in DOMAIN rs : rs[id].pago.mp_payment_id = pid }
  IN  IF S = {} THEN 0 ELSE CHOOSE id \in S : \A j \in S : id <= j

\* A delivery that ran to the end of the approved branch.
ProcessedDelivery(q) ==
  /\ q.kind = "webhook" /\ q.pc = "done"
  /\ IF variant = "v1" THEN q.wr > 0 ELSE q.ws \in {"recorded", "already"}

\* The request r after the handler answered with an HTTP status.
Answer(q, http) == [q EXCEPT !.pc = "done", !.http = http]

Changed(old, new) == IF old = new THEN 0 ELSE 1

--------------------------------------------------------------------------
(* POST /mp/webhook                                                       *)

\* The handler starts and parses the notification.
WebhookReceive(r) ==
  /\ CanStart(r)
  /\ \E n \in Notifications :
       LET q == [Idle EXCEPT !.kind = "webhook", !.arg = NotifPaymentId(n),
                   !.notif = n,
                   !.dup = \E o \in Reqs : /\ ProcessedDelivery(req[o])
                                           /\ req[o].arg = NotifPaymentId(n)]
       IN  req' = [req EXCEPT ![r] =
                     IF Recognised(n) THEN [q EXCEPT !.pc = "fetch"]
                     ELSE Answer(q, OkStatus)]
  /\ UNCHANGED <<variant, complejos, reservas, checks, pagos, days>>

\* const info = await payment.get({ id: paymentId }) answered.
WebhookFetch(r) ==
  /\ req[r].kind = "webhook" /\ req[r].pc = "fetch"
  /\ \E st \in MPStatuses(req[r].arg) :
       LET info == MPPayment(req[r].arg, st)
           q == [req[r] EXCEPT !.fetch = "ok", !.status = st]
       IN  req' = [req EXCEPT ![r] =
                     IF IsApproved(info) /\ Resolvable(Split(info.external_reference))
                       THEN [q EXCEPT !.pc = IF variant = "v3" THEN "confirm" ELSE "query"]
                       ELSE Answer(q, OkStatus)]
  /\ UNCHANGED <<variant, complejos, reservas, checks, pagos, days>>

\* Faulty variant of WebhookFetchFail: a failed fetch is taken as an approval.
WebhookFetchFailMut(r) ==
  /\ req[r].kind = "webhook" /\ req[r].pc = "fetch"
  /\ req' = [req EXCEPT ![r] =
               [@ EXCEPT !.fetch = "failed", !.status = "approved",
                         !.pc = IF variant = "v3" THEN "confirm" ELSE "query"]]
  /\ UNCHANGED <<variant, complejos, reservas, checks, pagos, days>>

\* payment.get threw or timed out: the catch block answers.
WebhookFetchFail(r) ==
  /\ req[r].kind = "webhook" /\ req[r].pc = "fetch"
  /\ req' = [req EXCEPT ![r] = Answer([@ EXCEPT !.fetch = "failed"], CatchStatus("webhook"))]
  /\ UNCHANGED <<variant, complejos, reservas, checks, pagos, days>>

\* The payment record a webhook request holds after the fetch.
InfoOf(q) == MPPayment(q.arg, q.status)
PartsOf(q) == Split(InfoOf(q).external_reference)

\* Faulty variant of WebhookConfirm: the handler goes on to the settlement
\* whatever the transaction answered.
WebhookConfirmMut(r) ==
  /\ req[r].kind = "webhook" /\ req[r].pc = "confirm"
  /\ LET parts == PartsOf(req[r])
         res == upsertConfirmedAtSlot(complejos, reservas, Part(parts, 1),
                  Part(parts, 2), Str(Part(parts, 3)), Part(parts, 4),
                  [pago |-> [mp_payment_id |-> InfoOf(req[r]).id, manual |-> FALSE]])
     IN  /\ reservas' = res.reservas
         /\ req' = [req EXCEPT ![r] =
                      [@ EXCEPT !.tx = res.out, !.confirmadas = res.confirmadas,
                                !.id = res.id, !.pc = "settle"]]
  /\ UNCHANGED <<variant, complejos, checks, pagos, days>>

\* await upsertConfirmedAtSlot({...}) of the v3 webhook: the transaction
\* commits, or throws 'Sin cupos' into the catch block.
WebhookConfirm(r) ==
  /\ req[r].kind = "webhook" /\ req[r].pc = "confirm"
  /\ LET parts == PartsOf(req[r])
         res == upsertConfirmedAtSlot(complejos, reservas, Part(parts, 1),
                  Part(parts, 2), Str(Part(parts, 3)), Part(parts, 4),
                  [pago |-> [mp_payment_id |-> InfoOf(req[r]).id, manual |-> FALSE]])
         q == [req[r] EXCEPT !.tx = res.out, !.confirmadas = res.confirmadas,
                 !.id = res.id, !.prior = PriorBooking(reservas, InfoOf(req[r]).id),
                 !.wr = @ + Changed(reservas, res.reservas)]
     IN  /\ reservas' = res.reservas
         /\ req' = [req EXCEPT ![r] =
                      IF res.out = "ok" THEN [q EXCEPT !.pc = "settle"]
                      ELSE Answer(q, CatchStatus("webhook"))]
  /\ UNCHANGED <<variant, complejos, checks, pagos, days>>

\* await upsertDailySettlement({ complejoId, fecha, paymentInfo: info }) of
\* the v2 and v3 webhooks, then res.sendStatus(200).
WebhookSettle(r) ==
  /\ req[r].kind = "webhook" /\ req[r].pc = "settle"
  /\ LET parts == PartsOf(req[r])
         L == upsertDailySettlement(variant, [pagos |-> pagos, days |-> days],
                Part(parts, 1), Part(parts, 2), InfoOf(req[r]))
     IN  /\ pagos' = L.pagos
         /\ days' = L.days
         /\ req' = [req EXCEPT ![r] =
                      Answer([@ EXCEPT !.ws = IF L.pagos = pagos /\ L.days = days
                                                THEN "already" ELSE "recorded"],
                             OkStatus)]
  /\ UNCHANGED <<variant, complejos, reservas, checks>>

--------------------------------------------------------------------------
(* POST /mp/webhook of v1 and v2: read the pending booking, then write it. *)

\* const snap = await reservasRef.where(...'tipo','==',Number(tipo))...
\*   .where('estado','in',['pending','pendiente']).limit(1).get()
LegacyQuery(r) ==
  /\ req[r].kind = "webhook" /\ req[r].pc = "query"
  /\ LET parts == PartsOf(req[r])
         snap == Limit(Query(reservas, Part(parts, 1), Part(parts, 2),
                             ToNumber(Str(Part(parts, 3))), Part(parts, 4),
                             {"pending", "pendiente"}), 1)
     IN  req' = [req EXCEPT ![r] =
                   IF snap = {} THEN Answer(@, OkStatus)
                   ELSE [@ EXCEPT !.pc = "write", !.id = CHOOSE id \in snap : TRUE]]
  /\ UNCHANGED <<variant, complejos, reservas, checks, pagos, days>>

\* await docRef.set({ estado: 'confirmada', pago: {...} }, { merge: true })
LegacyWrite(r) ==
  /\ req[r].kind = "webhook" /\ req[r].pc = "write"
  /\ LET rs == [reservas EXCEPT
                  ![req[r].id].estado = "confirmada",
                  ![req[r].id].pago = [mp_payment_id |-> InfoOf(req[r]).id,
                                       manual |-> FALSE]]
         q == [req[r] EXCEPT !.wr = @ + Changed(reservas, rs)]
     IN  /\ reservas' = rs
         /\ req' = [req EXCEPT ![r] =
                      IF variant = "v2" THEN [q EXCEPT !.pc = "settle"]
                      ELSE Answer(q, OkStatus)]
  /\ UNCHANGED <<variant, complejos, checks, pagos, days>>

--------------------------------------------------------------------------
(* POST /checks/:id/approve and POST /checks/:id/reject (v3)              *)

\* if (!userId || !complejoId || !fecha || !hora || !monto) throw
Incomplete(c) ==
  \/ ~Truthy(c.userId) \/ ~Truthy(c.complejoId) \/ ~Truthy(c.fecha)
  \/ ~Truthy(c.hora) \/ ~JsTruthy(c.monto)

\* Faulty variant of CheckPending: the estado of the check is not looked at.
CheckPendingMut(cks, checkId) == checkId \in DOMAIN cks

\* The checks of approveCheckAndConfirmReservation and rejectCheck before
\* their first write: the check exists and is pending.
CheckPending(cks, checkId) ==
  checkId \in DOMAIN cks /\ cks[checkId].estado = "pending"

\* approveCheckAndConfirmReservation up to the validation of the check.
ApproveRead(r) ==
  /\ variant = "v3"
  /\ CanStart(r)
  /\ \E k \in CheckIds :
       LET q == [Idle EXCEPT !.kind = "approve", !.arg = k]
       IN  req' = [req EXCEPT ![r] =
                     IF CheckPending(checks, k) /\ ~Incomplete(checks[k])
                       THEN [q EXCEPT !.pc = "confirm"]
                       ELSE Answer(q, CatchStatus(q.kind))]
  /\ UNCHANGED <<variant, complejos, reservas, checks, pagos, days>>

\* await upsertConfirmedAtSlot({...}) of the manual approval.
ApproveConfirm(r) ==
  /\ req[r].kind = "approve" /\ req[r].pc = "confirm"
  /\ LET c == checks[req[r].arg]
         pid == ManualId(req[r].arg)
         res == upsertConfirmedAtSlot(complejos, reservas, c.complejoId, c.fecha,
                  c.tipo, c.hora, [pago |-> [mp_payment_id |-> pid, manual |-> TRUE]])
         q == [req[r] EXCEPT !.tx = res.out, !.confirmadas = res.confirmadas,
                 !.id = res.id, !.prior = PriorBooking(reservas, pid),
                 !.wr = @ + Changed(reservas, res.reservas)]
     IN  /\ reservas' = res.reservas
         /\ req' = [req EXCEPT ![r] =
                      IF res.out = "ok" THEN [q EXCEPT !.pc = "mark"]
                      ELSE Answer(q, CatchStatus(q.kind))]
  /\ UNCHANGED <<variant, complejos, checks, pagos, days>>

\* await checkRef.set({ estado: 'approved', ... }, { merge: true })
ApproveMark(r) ==
  /\ req[r].kind = "approve" /\ req[r].pc = "mark"
  /\ checks' = [checks EXCEPT ![req[r].arg].estado = "approved"]
  /\ req' = [req EXCEPT ![r].pc = "settle"]
  /\ UNCHANGED <<variant, complejos, reservas, pagos, days>>

\* paymentInfo of the manual settlement
ManualInfo(checkId, c) ==
  [id |-> ManualId(checkId), status |-> "approved",
   transaction_amount |-> Num(NumberOr(c.monto, 0)),
   metadata |-> [payFull |-> Undef, deposit_pct |-> Undef, basePrice |-> Undef,
                 base_fraction_amount |-> Undef, commission_fixed |-> Num(0),
                 total |-> Num(NumberOr(c.monto, 0)), manual |-> Bool(TRUE),
                 manual_amount |-> Num(NumberOr(c.monto, 0))]]

\* await upsertDailySettlement({...}); return { ok: true }
ApproveSettle(r) ==
  /\ req[r].kind = "approve" /\ req[r].pc = "settle"
  /\ LET c == checks[req[r].arg]
         L == upsertDailySettlement(variant, [pagos |-> pagos, days |-> days],
                c.complejoId, c.fecha, ManualInfo(req[r].arg, c))
     IN  /\ pagos' = L.pagos
         /\ days' = L.days
         /\ req' = [req EXCEPT ![r] =
                      Answer([@ EXCEPT !.ws = IF L.pagos = pagos /\ L.days = days
                                                THEN "already" ELSE "recorded"],
                             OkStatus)]
  /\ UNCHANGED <<variant, complejos, reservas, checks>>

\* The reason the body of POST /checks/:id/reject carries: none, or a text.
Reasons == {"", "Comprobante ilegible"}

\* rejectCheck up to the validation of the check.
RejectRead(r) ==
  /\ variant = "v3"
  /\ CanStart(r)
  /\ \E k \in CheckIds :
       LET q == [Idle EXCEPT !.kind = "reject", !.arg = k]
       IN  req' = [req EXCEPT ![r] =
                     IF CheckPending(checks, k) THEN [q EXCEPT !.pc = "mark"]
                     ELSE Answer(q, CatchStatus(q.kind))]
  /\ UNCHANGED <<variant, complejos, reservas, checks, pagos, days>>

\* Faulty variant of RejectReason: the reason is stored as it was sent.
RejectReasonMut(reason) == reason

\* reason: reason || 'Rechazado'
RejectReason(reason) == IF Truthy(reason) THEN reason ELSE "Rechazado"

\* await checkRef.set({ estado: 'rejected', reason: reason || 'Rechazado' }),
\* reason being the one the request body carries (its first use).
RejectWrite(r) ==
  /\ req[r].kind = "reject" /\ req[r].pc = "mark"
  /\ \E reason \in Reasons :
       /\ checks' = [checks EXCEPT ![req[r].arg].estado = "rejected",
                                   ![req[r].arg].reason = RejectReason(reason)]
       /\ req' = [req EXCEPT ![r] = Answer([@ EXCEPT !.reason = reason], OkStatus)]
  /\ UNCHANGED <<variant, complejos, reservas, pagos, days>>

\* e.message of the error an approve request was answered with: the three
\* validation errors of approveCheckAndConfirmReservation, the capacity
\* conflict of confirmWithCapacityTx, or whatever the store threw.
ErrorMessage(q) ==
  IF q.tx = "sin_cupos" THEN "Sin cupos para ese horario"
  ELSE IF q.tx # "none" \/ q.ws # "none" THEN "storage error"
  ELSE IF q.arg \notin DOMAIN checks THEN "Check no encontrado"
  ELSE IF checks[q.arg].estado # "pending" THEN "El check no esta pendiente"
  ELSE "Datos incompletos en el check"

\* What POST /checks/:id/approve answered: res.json({ ok: true }) on success,
\* res.status(400).json({ error: true, message }) from the catch block.
\* id is the booking id in the body; the body has none, which is id 0.
ApproveResponse(q) ==
  IF q.http = OkStatus
    THEN [status |-> q.http, ok |-> TRUE, error |-> FALSE, message |-> "", id |-> 0]
    ELSE [status |-> q.http, ok |-> FALSE, error |-> TRUE,
          message |-> ErrorMessage(q), id |-> 0]

--------------------------------------------------------------------------
(* Storage errors.                                                        *)

\* An awaited Firestore call (a transaction, a query or a set) throws: it
\* writes nothing, and the catch block of the handler answers.
StorageError(r) ==
  /\ req[r].pc \in {"confirm", "mark", "settle", "query", "write"}
  /\ req' = [req EXCEPT ![r] =
               Answer([@ EXCEPT !.tx = IF @ = "none" /\ req[r].pc = "confirm"
                                         THEN "error" ELSE @,
                                !.ws = IF req[r].pc = "settle" THEN "error" ELSE @],
                      CatchStatus(req[r].kind))]
  /\ UNCHANGED <<variant, complejos, reservas, checks, pagos, days>>

--------------------------------------------------------------------------
(* Specifications.                                                        *)

InitStore ==
  /\ complejos \in InitialComplejos
  /\ reservas \in InitialReservas
  /\ checks = InitialChecks
  /\ pagos = <<>>
  /\ days = <<>>
  /\ req = [r \in Reqs |-> Idle]

\* The v3 server.
Init == variant = "v3" /\ InitStore

Next ==
  \E r \in Reqs :
    \/ WebhookReceive(r)
    \/ WebhookFetch(r)
    \/ WebhookFetchFail(r)
    \/ WebhookConfirm(r)
    \/ WebhookSettle(r)
    \/ ApproveRead(r)
    \/ ApproveConfirm(r)
    \/ ApproveMark(r)
    \/ ApproveSettle(r)
    \/ RejectRead(r)
    \/ RejectWrite(r)
    \/ StorageError(r)

Spec == Init /\ [][Next]_vars

\* The v1 and v2 servers: the webhook is their only writer.
InitLegacy == variant \in {"v1", "v2"} /\ InitStore

NextLegacy ==
  \E r \in Reqs :
    \/ WebhookReceive(r)
    \/ WebhookFetch(r)
    \/ WebhookFetchFail(r)
    \/ LegacyQuery(r)
    \/ LegacyWrite(r)
    \/ WebhookSettle(r)
    \/ StorageError(r)

SpecLegacy == InitLegacy /\ [][NextLegacy]_vars

\* Any of the three servers.
InitAll == variant \in {"v1", "v2", "v3"} /\ InitStore

NextAll ==
  \E r \in Reqs :
    \/ WebhookReceive(r)
    \/ WebhookFetch(r)
    \/ WebhookFetchFail(r)
    \/ WebhookConfirm(r)
    \/ LegacyQuery(r)
    \/ LegacyWrite(r)
    \/ WebhookSettle(r)
    \/ ApproveRead(r)
    \/ ApproveConfirm(r)
    \/ ApproveMark(r)
    \/ ApproveSettle(r)
    \/ RejectRead(r)
    \/ RejectWrite(r)
    \/ StorageError(r)

SpecAll == InitAll /\ [][NextAll]_vars

\* checks/K1 as a client may have written it: one of the fields that make the
\* slot key is missing (undefined, which is falsy like the empty string).
IncompleteChecks ==
  { [K1 |-> [InitialChecks.K1 EXCEPT !.complejoId = ""]],
    [K1 |-> [InitialChecks.K1 EXCEPT !.fecha = ""]],
    [K1 |-> [InitialChecks.K1 EXCEPT !.tipo = Undef]],
    [K1 |-> [InitialChecks.K1 EXCEPT !.hora = ""]] }

\* The v3 server with a check that lacks a part of its slot key.
InitIncomplete ==
  /\ variant = "v3"
  /\ complejos \in InitialComplejos
  /\ reservas \in {<<>>, <<Reserva(Num(7), "pending", NoPago)>>}
  /\ checks \in IncompleteChecks
  /\ pagos = <<>>
  /\ days = <<>>
  /\ req = [r \in Reqs |-> Idle]

NextIncomplete ==
  \E r \in Reqs :
    \/ WebhookReceive(r)
    \/ WebhookFetch(r)
    \/ WebhookFetchFail(r)
    \/ WebhookConfirm(r)
    \/ WebhookSettle(r)
    \/ ApproveRead(r)
    \/ ApproveConfirm(r)
    \/ ApproveMark(r)
    \/ ApproveSettle(r)
    \/ StorageError(r)

SpecIncomplete == InitIncomplete /\ [][NextIncomplete]_vars

\* The caller of an entrypoint invokes it again after it answered: a request
\* starts and runs only when the request before it was answered.
Sequential(r) == IF r = 1 THEN TRUE ELSE req[r - 1].pc = "done"

NextRetry ==
  \E r \in Reqs :
    \/ Sequential(r) /\ WebhookReceive(r)
    \/ Sequential(r) /\ WebhookFetch(r)
    \/ Sequential(r) /\ WebhookFetchFail(r)
    \/ Sequential(r) /\ WebhookConfirm(r)
    \/ Sequential(r) /\ WebhookSettle(r)
    \/ Sequential(r) /\ ApproveRead(r)
    \/ Sequential(r) /\ ApproveConfirm(r)
    \/ Sequential(r) /\ ApproveMark(r)
    \/ Sequential(r) /\ ApproveSettle(r)
    \/ Sequential(r) /\ StorageError(r)

\* The v3 server serving one invocation after the other.
SpecRetry == Init /\ [][NextRetry]_vars

--------------------------------------------------------------------------
(* The availability helpers, called on any stored data.                   *)

\* Confirmed bookings of the slot stored under one representation of tipo.
MaxStored == 4

\* The bookings of complejos/F: a confirmed with tipo 7 (number), b confirmed
\* with tipo "7" (string), one provisional and one of another resource type.
Stored(a, b) ==
  [i \in 1..a |-> Reserva(Num(7), "confirmada", NoPago)]
    \o [i \in 1..b |-> Reserva(Str("7"), "confirmada", NoPago)]
    \o <<Reserva(Num(7), "pending", NoPago), Reserva(Num(5), "confirmada", NoPago)>>

StoredSets == { Stored(a, b) : a, b \in 0..MaxStored }

\* complejos/F: absent, or with a canchas mapping as an operator may have
\* stored it (a zero, a negative number, another key, a slug key).
CapacityDocs ==
  { <<>> } \cup
  { [F |-> [canchas |-> [x \in {k} |-> v]]] :
      k \in {"7"}, v \in {1, 2, 0, -1} } \cup
  { [F |-> [canchas |-> [x \in {k} |-> 2]]] : k \in {"5", "f7"} }

\* The tipo a caller passes: a number, its string, a slug.
QueryTipos == {Num(7), Str("7"), Str("F7")}

\* A finished call of a helper: its argument and what it returned.
Call(kind, tipo, out) == [kind |-> kind, pc |-> "done", tipo |-> tipo, out |-> out]

\* await countConfirmedAtSlot({ complejoId, fecha, tipo, hora })
CallCountConfirmedAtSlot(r) ==
  /\ CanStart(r) /\ r <= 2
  /\ \E tipo \in QueryTipos :
       req' = [req EXCEPT ![r] =
                 Call("countConfirmedAtSlot", tipo,
                      countConfirmedAtSlot(reservas, "F", "2024-05-01", tipo, "18:00"))]
  /\ UNCHANGED <<variant, complejos, reservas, checks, pagos, days>>

\* const confirmadas = ids.size inside confirmWithCapacityTx
CallTxConfirmadas(r) ==
  /\ CanStart(r) /\ r <= 2
  /\ \E tipo \in QueryTipos :
       req' = [req EXCEPT ![r] =
                 Call("confirmadas", tipo,
                      confirmWithCapacityTx(complejos, reservas, "F", "2024-05-01",
                        tipo, "18:00", [pago |-> NoPago]).confirmadas)]
  /\ UNCHANGED <<variant, complejos, reservas, checks, pagos, days>>

\* await getCapacityForTipo({ complejoId, tipo })
CallGetCapacityForTipo(r) ==
  /\ CanStart(r) /\ r <= 2
  /\ \E tipo \in QueryTipos :
       req' = [req EXCEPT ![r] =
                 Call("getCapacityForTipo", tipo,
                      getCapacityForTipo(complejos, "F", tipo))]
  /\ UNCHANGED <<variant, complejos, reservas, checks, pagos, days>>

\* const capacidad = ... inside confirmWithCapacityTx
CallTxCapacidad(r) ==
  /\ CanStart(r) /\ r <= 2
  /\ \E tipo \in QueryTipos :
       req' = [req EXCEPT ![r] =
                 Call("capacidad", tipo,
                      Capacidad(complejos, "F", normalizeTipoForQuery(tipo)))]
  /\ UNCHANGED <<variant, complejos, reservas, checks, pagos, days>>

InitHelpers ==
  /\ variant = "v3"
  /\ complejos \in CapacityDocs
  /\ reservas \in StoredSets
  /\ checks = InitialChecks
  /\ pagos = <<>>
  /\ days = <<>>
  /\ req = [r \in Reqs |-> Idle]

NextHelpers ==
  \E r \in Reqs :
    \/ CallCountConfirmedAtSlot(r)
    \/ CallTxConfirmadas(r)
    \/ CallGetCapacityForTipo(r)
    \/ CallTxCapacidad(r)

SpecHelpers == InitHelpers /\ [][NextHelpers]_vars

--------------------------------------------------------------------------
(* One notification, delivered again until a delivery is processed.       *)

\* POST /mp/webhook?type=payment&data.id=P1: P1 is approved and its
\* reference names the slot.
PipelineNotif == [qType |-> "payment", qDataId |-> "P1", bType |-> "", bDataId |-> ""]

\* The processor delivers the notification.
Deliver(r) ==
  /\ WebhookReceive(r)
  /\ req'[r].notif = PipelineNotif

\* The delivery was answered without having been processed to the end (the
\* fetch failed, or the catch block answered): the processor will deliver
\* the notification again.
Redeliver(r) ==
  /\ req[r].kind = "webhook" /\ req[r].pc = "done"
  /\ ~ProcessedDelivery(req[r])
  /\ req' = [req EXCEPT ![r] = Idle]
  /\ UNCHANGED <<variant, complejos, reservas, checks, pagos, days>>

\* The slot has free capacity when the first delivery arrives.
InitPipeline ==
  /\ Init
  /\ Confirmadas(reservas, "F", "2024-05-01", Num(7), "18:00",
                 Capacidad(complejos, "F", Num(7)))
       < Capacidad(complejos, "F", Num(7))

NextPipeline ==
  \/ Deliver(1)
  \/ Redeliver(1)
  \/ WebhookFetch(1)
  \/ WebhookFetchFail(1)
  \/ WebhookConfirm(1)
  \/ WebhookSettle(1)
  \/ StorageError(1)

\* The booking transaction of the delivery is awaited: WebhookConfirm(1) is
\* enabled.
AtConfirm == req[1].kind = "webhook" /\ req[1].pc = "confirm"

\* The event loop runs every continuation of the handler, and the processor
\* delivers again; a fetch or a Firestore call may fail, but none fails
\* every time it is made (strong fairness of the three awaited steps, the
\* one of WebhookConfirm(1) written with its enabling condition).
SpecPipeline ==
  /\ InitPipeline /\ [][NextPipeline]_vars
  /\ WF_vars(Deliver(1)) /\ WF_vars(Redeliver(1))
  /\ SF_vars(WebhookFetch(1))
  /\ (<>[]~AtConfirm \/ []<><<WebhookConfirm(1)>>_vars)
  /\ SF_vars(WebhookSettle(1))

--------------------------------------------------------------------------
(* Confirmations for several slots of one facility.                       *)

\* Three slots of complejos/F: two hours of resource type 7 and one of
\* resource type 5, as a reference or a check names them.
Slots ==
  { [fecha |-> "2024-05-01", tipo |-> Str("7"), hora |-> "18:00"],
    [fecha |-> "2024-05-01", tipo |-> Str("7"), hora |-> "19:00"],
    [fecha |-> "2024-05-01", tipo |-> Str("5"), hora |-> "18:00"] }

\* A booking document of a slot.
ReservaAt(hora, tipo, estado) ==
  [complejoId |-> "F", fecha |-> "2024-05-01", hora |-> hora,
   tipo |-> tipo, estado |-> estado, pago |-> NoPago]

\* What complejos/F/reservas may hold: for each hour of type 7 nothing, a
\* provisional or a confirmed booking; for type 5 nothing or a provisional.
SlotStores ==
  { a \o b \o c :
      a \in { <<>>, <<ReservaAt("18:00", Num(7), "pending")>>,
                    <<ReservaAt("18:00", Str("7"), "confirmada")>> },
      b \in { <<>>, <<ReservaAt("19:00", Str("7"), "pendiente")>>,
                    <<ReservaAt("19:00", Num(7), "confirmada")>> },
      c \in { <<>>, <<ReservaAt("18:00", Num(5), "pending")>> } }

\* await upsertConfirmedAtSlot({ complejoId, fecha, tipo, hora,
\* payloadToMerge }) for the slot a payment's reference or a check names.
ConfirmAtSlot(r) ==
  /\ CanStart(r)
  /\ \E slot \in Slots, pid \in {"P1", "P2"} :
       LET res == upsertConfirmedAtSlot(complejos, reservas, "F", slot.fecha,
                    slot.tipo, slot.hora,
                    [pago |-> [mp_payment_id |-> pid, manual |-> FALSE]])
       IN  /\ reservas' = res.reservas
           /\ req' = [req EXCEPT ![r] =
                        [kind |-> "slot", pc |-> "done", slot |-> slot,
                         arg |-> pid, out |-> res.out, id |-> res.id]]
  /\ UNCHANGED <<variant, complejos, checks, pagos, days>>

InitSlots ==
  /\ variant = "v3"
  /\ complejos \in { <<>>, [F |-> [canchas |-> [x \in {"7"} |-> 2]]] }
  /\ reservas \in SlotStores
  /\ checks = InitialChecks
  /\ pagos = <<>>
  /\ days = <<>>
  /\ req = [r \in Reqs |-> Idle]

NextSlots == \E r \in Reqs : ConfirmAtSlot(r)

SpecSlots == InitSlots /\ [][NextSlots]_vars

--------------------------------------------------------------------------
(* Concurrent calls of upsertDailySettlement on one facility and day.     *)

\* upsertDailySettlement({ complejoId: 'F', fecha: '2024-05-01',
\* paymentInfo }) is called with a payment id no other call carries, and
\* awaits its transaction.
CallSettlement(r) ==
  /\ CanStart(r)
  /\ \E pid \in PaymentIds :
       /\ \A o \in Reqs : req[o].kind = "settlement" => req[o].arg # pid
       /\ req' = [req EXCEPT ![r] =
                    [kind |-> "settlement", pc |-> "settle", arg |-> pid,
                     ws |-> "none"]]
  /\ UNCHANGED <<variant, complejos, reservas, checks, pagos, days>>

\* The transaction of the call commits.
SettlementCommit(r) ==
  /\ req[r].kind = "settlement" /\ req[r].pc = "settle"
  /\ LET L == upsertDailySettlement(variant, [pagos |-> pagos, days |-> days],
                "F", "2024-05-01", MPPayment(req[r].arg, "approved"))
     IN  /\ pagos' = L.pagos
         /\ days' = L.days
  /\ req' = [req EXCEPT ![r] = [@ EXCEPT !.pc = "done", !.ws = "recorded"]]
  /\ UNCHANGED <<variant, complejos, reservas, checks>>

\* The transaction of the call throws: nothing is written.
SettlementThrow(r) ==
  /\ req[r].kind = "settlement" /\ req[r].pc = "settle"
  /\ req' = [req EXCEPT ![r] = [@ EXCEPT !.pc = "done", !.ws = "error"]]
  /\ UNCHANGED <<variant, complejos, reservas, checks, pagos, days>>

InitLedger ==
  /\ variant \in {"v2", "v3"}
  /\ complejos = <<>>
  /\ reservas = <<>>
  /\ checks = InitialChecks
  /\ pagos = <<>>
  /\ days = <<>>
  /\ req = [r \in Reqs |-> Idle]

NextLedger ==
  \E r \in Reqs :
    \/ CallSettlement(r)
    \/ SettlementCommit(r)
    \/ SettlementThrow(r)

SpecLedger == InitLedger /\ [][NextLedger]_vars

--------------------------------------------------------------------------
(* POST /mp/create-preference.                                            *)

\* const { unit_price = 1000, deposit_pct = 30 } = req.body: the default is
\* taken when the field is missing.
Default(v, d) == IF v.k = "undef" THEN d ELSE v

\* The unit_price and deposit_pct a body carries: missing, numbers (zero and
\* negative ones too), a non-numeric text, a numeral, the empty text.
UnitPrices == {Undef, Num(5000), Num(0), Num(-5000), Str("abc"), Str("5")}
DepositPcts == {Undef, Num(50), Num(0), Num(-50), Str("abc"), Str("5"), Str("")}

\* const base = Number(unit_price) || 0, in pesos.
PreferenceBase(unit_price) == NumberOr(Default(unit_price, Num(1000)), 0)

\* const pct = Number(deposit_pct) || 30 of v2 and v3.
PreferencePct(deposit_pct) == NumberOr(Default(deposit_pct, Num(30)), 30)

\* Number(x.toFixed(2)): x rounded to hundredths of a peso.  Amounts are
\* kept in hundredths here, and the product of a whole price and a whole
\* percentage is a whole number of hundredths; NaN stays NaN.
ToFixed2(x) == IF x.k = "num" THEN Num(x.n) ELSE NaN

\* chargedAmount, the unit_price of the item sent to the processor, in
\* hundredths of a peso.  v1: Number((base * (payFull ? 1 :
\* (deposit_pct / 100))).toFixed(2)), deposit_pct as the body carries it;
\* v2 and v3: the fraction of the base from pct, plus COMMISSION_FIXED.
ChargedAmount(v, unit_price, deposit_pct, payFull) ==
  LET base == PreferenceBase(unit_price)
  IN  IF v = "v1"
        THEN LET raw == ToNumber(Default(deposit_pct, Num(30)))
             IN  IF payFull THEN ToFixed2(Num(base * 100))
                 ELSE IF raw.k = "num" THEN ToFixed2(Num(base * raw.n))
                 ELSE ToFixed2(NaN)
        ELSE LET pct == PreferencePct(deposit_pct)
                 baseFractionAmount ==
                   ToFixed2(Num(base * (IF payFull THEN 100 ELSE pct)))
             IN  ToFixed2(Num(baseFractionAmount.n + COMMISSION_FIXED * 100))

\* The handler: the amounts are computed, pref.create({ body }) is awaited
\* and answers or throws; the catch block answers 500.
CreatePreference(r) ==
  /\ CanStart(r) /\ r = 1
  /\ \E unit_price \in UnitPrices, deposit_pct \in DepositPcts,
        payFull \in BOOLEAN, created \in BOOLEAN :
       req' = [req EXCEPT ![r] =
                 [kind |-> "preference", pc |-> "done",
                  unit_price |-> unit_price, deposit_pct |-> deposit_pct,
                  payFull |-> payFull,
                  sent |-> ChargedAmount(variant, unit_price, deposit_pct, payFull),
                  http |-> IF created THEN OkStatus ELSE 500]]
  /\ UNCHANGED <<variant, complejos, reservas, checks, pagos, days>>

InitPreference ==
  /\ variant \in {"v1", "v2", "v3"}
  /\ complejos = <<>>
  /\ reservas = <<>>
  /\ checks = InitialChecks
  /\ pagos = <<>>
  /\ days = <<>>
  /\ req = [r \in Reqs |-> Idle]

NextPreference == \E r \in Reqs : CreatePreference(r)

SpecPreference == InitPreference /\ [][NextPreference]_vars

--------------------------------------------------------------------------
(* Properties.                                                            *)

WebhookReqs == { r \in Reqs : req[r].kind = "webhook" }

\* Requests whose booking transaction ran to a decision.
Decided == { r \in Reqs : req[r].tx \in {"ok", "sin_cupos"} }
Accepted == { r \in Reqs : req[r].tx = "ok" }

\* The confirmed bookings of the slot (F, 2024-05-01, 7, 18:00), tipo stored
\* as the number or as its string.
ConfirmedInSlot ==
  { id \in DOMAIN reservas :
      /\ reservas[id].complejoId = "F" /\ reservas[id].fecha = "2024-05-01"
      /\ reservas[id].hora = "18:00" /\ reservas[id].tipo \in {Num(7), Str("7")}
      /\ reservas[id].estado = "confirmada" }

\* The configured capacity of the slot.
SlotCapacity == Capacidad(complejos, "F", Num(7))

\* The confirmed bookings that carry an approval id.
ConfirmedFor(pid) ==
  { id \in DOMAIN reservas :
      reservas[id].estado = "confirmada" /\ reservas[id].pago.mp_payment_id = pid }

\* C1: under any interleaving of upsertConfirmedAtSlot calls (webhook and
\* manual approval), the number of confirmed bookings of the slot never
\* exceeds the slot's configured capacity.
C1_CapacityInvariant == Cardinality(ConfirmedInSlot) <= SlotCapacity

\* A full slot of capacity 2 after one call was accepted and another rejected.
C1_Witness ==
  /\ SlotCapacity = 2 /\ Cardinality(ConfirmedInSlot) = 2
  /\ \E a, b \in Reqs : req[a].tx = "ok" /\ req[b].tx = "sin_cupos"

\* C2: a confirmation invoked when a booking already carries its approval id
\* succeeds, returns that booking's id and changes no booking, and exactly
\* one confirmed booking carries the id.
C2_ConfirmIdempotent ==
  \A r \in Decided :
    req[r].prior # 0 =>
      /\ req[r].tx = "ok"
      /\ req[r].id = req[r].prior
      /\ req[r].wr = 0
      /\ Cardinality(ConfirmedFor(ApprovalId(req[r]))) = 1

\* C3: of the requests that act for one approval id (deliveries of one
\* payment id, approvals of one check), at most one creates or confirms a
\* booking.
C3_AtMostOncePerApprovalId ==
  \A a, b \in Reqs :
    (a # b /\ req[a].kind = req[b].kind /\ req[a].kind \in {"webhook", "approve"}
       /\ req[a].arg = req[b].arg)
      => ~(req[a].wr > 0 /\ req[b].wr > 0)

\* The line item key upsertDailySettlement is invoked with by request q.
SettleKey(q) ==
  IF q.kind = "approve"
    THEN <<checks[q.arg].complejoId, checks[q.arg].fecha, ManualId(q.arg)>>
    ELSE <<Part(PartsOf(q), 1), Part(PartsOf(q), 2), q.arg>>

\* C4: an upsertDailySettlement for a payment id whose line item already
\* exists under (complejoId, fecha) leaves every line item and every
\* counter of the daily aggregate unchanged.
C4_SettlementIdempotent ==
  [][\A r \in Reqs :
       (/\ req[r].pc = "settle"
        /\ req'[r].ws \in {"recorded", "already"}
        /\ SettleKey(req[r]) \in DOMAIN pagos)
         => (pagos' = pagos /\ days' = days)]_vars

\* A settlement call that found its line item, with the aggregate in place.
C4_Witness ==
  \E r \in Reqs :
    /\ req[r].ws = "already"
    /\ SettleKey(req[r]) \in DOMAIN pagos
    /\ days[<<"F", "2024-05-01">>].count_total = 1

\* C5: a delivery of a payment id that arrives after an earlier delivery of
\* the same id was processed writes no booking and no settlement.
C5_DuplicateDeliveryWritesNothing ==
  \A r \in WebhookReqs :
    req[r].dup => (req[r].wr = 0 /\ req[r].ws # "recorded")

\* Every confirmed booking of the slot was confirmed by one of the requests:
\* the slot held no confirmed booking at the start.
StartedEmpty ==
  \A id \in ConfirmedInSlot : \E r \in Accepted : req[r].id = id

\* C6: with capacity 1 and no confirmed booking at the start, of the approval
\* events whose transaction ran, exactly one is accepted and every other one
\* is rejected for capacity.
C6_ScenarioA ==
  (SlotCapacity = 1 /\ StartedEmpty /\ Decided # {})
    => /\ Cardinality(Accepted) = 1
       /\ Cardinality(ConfirmedInSlot) = 1
       /\ \A r \in Decided \ Accepted : req[r].tx = "sin_cupos" /\ req[r].wr = 0

\* Two events with different payment ids raced: one accepted, one rejected.
C6_Witness ==
  /\ SlotCapacity = 1 /\ StartedEmpty
  /\ \E a, b \in WebhookReqs :
       /\ req[a].arg # req[b].arg
       /\ req[a].tx = "ok" /\ req[b].tx = "sin_cupos"

\* C7: with capacity 2, an approval event that finds one confirmed booking is
\* accepted and brings the count to 2; an event that finds two is rejected
\* and the count stays 2.
C7_ScenarioB ==
  SlotCapacity = 2 =>
    \A r \in Decided :
      /\ req[r].confirmadas = 1 =>
           (req[r].tx = "ok" /\ req[r].wr = 1 /\ Cardinality(ConfirmedInSlot) = 2)
      /\ req[r].confirmadas >= 2 =>
           (req[r].tx = "sin_cupos" /\ req[r].wr = 0 /\ Cardinality(ConfirmedInSlot) = 2)

\* One event was accepted on top of the existing booking, the next rejected.
C7_Witness ==
  /\ SlotCapacity = 2 /\ Cardinality(ConfirmedInSlot) = 2
  /\ ~StartedEmpty
  /\ \E a, b \in Reqs :
       /\ req[a].tx = "ok" /\ req[a].confirmadas = 1
       /\ req[b].tx = "sin_cupos" /\ req[b].confirmadas = 2

\* C8: a webhook delivery whose fetched payment is not approved runs no
\* booking transaction, writes no booking and records no settlement.
C8_NonApprovedWritesNothing ==
  \A r \in WebhookReqs :
    req[r].status \in {"rejected", "pending", "in_process"}
      => (req[r].tx = "none" /\ req[r].wr = 0 /\ req[r].ws = "none")

\* A delivery of a pending payment was answered.
C8_Witness ==
  \E r \in WebhookReqs : req[r].status = "pending" /\ req[r].pc = "done"

\* C9: every answer of POST /mp/webhook is HTTP 200.
C9_WebhookAlways200 ==
  \A r \in WebhookReqs : req[r].pc = "done" => req[r].http = 200

\* Deliveries answered after a capacity rejection and after a storage error.
C9_Witness ==
  \E a, b \in WebhookReqs :
    /\ req[a].pc = "done" /\ req[a].tx = "sin_cupos"
    /\ req[b].pc = "done" /\ (req[b].tx = "error" \/ req[b].ws = "error"
                              \/ req[b].fetch = "failed")

\* C10: a webhook delivery touches bookings or the ledger only after its
\* fetch answered with status approved; a delivery whose fetch failed is
\* answered without any write.
C10_FetchBeforeTrust ==
  \A r \in WebhookReqs :
    /\ (req[r].pc \in {"confirm", "query", "write", "settle"}
        \/ req[r].tx # "none" \/ req[r].wr > 0 \/ req[r].ws # "none")
         => (req[r].fetch = "ok" /\ req[r].status = "approved")
    /\ req[r].fetch = "failed"
         => (req[r].pc = "done" /\ req[r].wr = 0 /\ req[r].ws = "none")

\* One delivery's fetch failed while another one wrote a booking.
C10_Witness ==
  \E a, b \in WebhookReqs :
    /\ req[a].fetch = "failed" /\ req[a].pc = "done"
    /\ req[b].fetch = "ok" /\ req[b].wr > 0

\* C11: a request is at its settlement call, or has made it, only after its
\* own booking confirmation committed (the transaction of v3, the write of
\* the pending booking in v2); a request whose confirmation was rejected for
\* capacity or failed is answered without a settlement call; and every line
\* item of the ledger was recorded by such a request.
C11_SettlementFollowsConfirmation ==
  /\ \A r \in Reqs :
       /\ (req[r].pc = "settle" \/ req[r].ws # "none")
            => /\ req[r].id \in DOMAIN reservas
               /\ reservas[req[r].id].estado = "confirmada"
               /\ IF variant = "v3" THEN req[r].tx = "ok" ELSE variant = "v2"
       /\ req[r].tx \in {"sin_cupos", "error"}
            => (req[r].pc = "done" /\ req[r].ws = "none")
  /\ \A key \in DOMAIN pagos :
       \E r \in Reqs : req[r].ws = "recorded" /\ SettleKey(req[r]) = key

\* One request recorded its settlement after its confirmation, another was
\* rejected for capacity and answered.
C11_Witness ==
  \E a, b \in Reqs :
    /\ req[a].ws = "recorded" /\ req[a].tx = "ok"
    /\ SettleKey(req[a]) \in DOMAIN pagos
    /\ req[b].tx = "sin_cupos" /\ req[b].pc = "done"

\* C12: the step in which a booking transaction finds the slot full and
\* aborts changes no booking (none created, none confirmed), no check (a
\* pending check stays pending) and no settlement document, and the request
\* is answered without any later write.
C12_CapacityRejectionLeavesState ==
  [][\A r \in Reqs :
       (req[r].pc = "confirm" /\ req'[r].tx = "sin_cupos")
         => /\ reservas' = reservas
            /\ checks' = checks
            /\ pagos' = pagos /\ days' = days
            /\ req'[r].pc = "done" /\ req'[r].wr = 0]_vars

\* A manual approval was rejected for capacity while a provisional booking
\* of the slot and the pending check are still as they were.
C12_Witness ==
  \E r \in Reqs :
    /\ req[r].kind = "approve" /\ req[r].tx = "sin_cupos" /\ req[r].pc = "done"
    /\ checks[req[r].arg].estado = "pending"
    /\ \E id \in DOMAIN reservas : reservas[id].estado \in {"pending", "pendiente"}

\* The approve requests that were answered.
ApproveDone == { r \in Reqs : req[r].kind = "approve" /\ req[r].pc = "done" }

\* C13: an approval that succeeded reports the id of the booking it
\* confirmed, and an approval rejected for capacity is answered with a status
\* and error type that no validation error or other failure is answered with.
C13_ApproveOutcomes ==
  \A a \in ApproveDone :
    /\ req[a].http = OkStatus => ApproveResponse(req[a]).id = req[a].id
    /\ req[a].tx = "sin_cupos" =>
         \A b \in ApproveDone :
           (req[b].http # OkStatus /\ req[b].tx # "sin_cupos")
             => <<ApproveResponse(req[a]).status, ApproveResponse(req[a]).error>>
                  # <<ApproveResponse(req[b]).status, ApproveResponse(req[b]).error>>

\* C14: a reject request that found its check pending is refused by no
\* capacity rule, and its write sets the check to 'rejected' with the reason
\* sent ('Rechazado' when none was sent), answers 200 and changes no booking
\* and no settlement document.
C14_RejectFrame ==
  [][\A r \in Reqs :
       (req[r].kind = "reject" /\ req[r].pc = "mark" /\ req'[r] # req[r])
         => /\ req'[r].pc = "done" /\ req'[r].tx = "none"
            /\ reservas' = reservas /\ pagos' = pagos /\ days' = days
            /\ IF req'[r].http = OkStatus
                 THEN /\ checks'[req[r].arg].estado = "rejected"
                      /\ checks'[req[r].arg].reason
                           = (IF req'[r].reason = "" THEN "Rechazado"
                                                    ELSE req'[r].reason)
                 ELSE checks' = checks]_vars

\* A check was rejected with the default reason while its slot was full.
C14_Witness ==
  \E r \in Reqs :
    /\ req[r].kind = "reject" /\ req[r].pc = "done" /\ req[r].http = OkStatus
    /\ req[r].reason = ""
    /\ checks[req[r].arg].estado = "rejected"
    /\ checks[req[r].arg].reason = "Rechazado"
    /\ Cardinality(ConfirmedInSlot) >= SlotCapacity

\* The calls of a helper that were made with tipo 7 or "7".
CallsOf(kind) ==
  { r \in Reqs : req[r].kind = kind /\ req[r].tipo \in {Num(7), Str("7")} }

Min(a, b) == IF a <= b THEN a ELSE b

\* The confirmed bookings of the slot stored under one tipo value.
StoredAs(tipo) ==
  Cardinality({ id \in ConfirmedInSlot : reservas[id].tipo = tipo })

HasEntry == "F" \in DOMAIN complejos /\ "7" \in DOMAIN complejos["F"].canchas

\* C16: the capacity getCapacityForTipo returns and the capacity computed
\* inside confirmWithCapacityTx are at least 1 for every stored canchas
\* mapping, are 1 when the facility document or the entry is missing, and
\* are equal when asked for the same tipo.
C16_CapacityPositive ==
  \A a \in Reqs :
    req[a].kind \in {"getCapacityForTipo", "capacidad"} =>
      /\ req[a].out >= 1
      /\ (req[a].tipo \in {Num(7), Str("7")} /\ ~HasEntry) => req[a].out = 1
      /\ \A b \in Reqs :
           (req[b].kind \in {"getCapacityForTipo", "capacidad"}
              /\ req[b].tipo = req[a].tipo)
             => req[b].out = req[a].out

\* The payment record request q settles.
SettleInfo(q) ==
  IF q.kind = "approve" THEN ManualInfo(q.arg, checks[q.arg]) ELSE InfoOf(q)

\* The daily aggregate under a key, zeros when the document does not exist.
DayOf(ds, key) == IF key \in DOMAIN ds THEN ds[key] ELSE ZeroDay

\* C17: a settlement call for a payment id without a line item commits: the
\* line item exists afterwards, count_total grew by 1, count_full or
\* count_deposit grew by 1 according to payFull, and the three sums grew by
\* the charged total, the commission and the base fraction of the payment.
C17_NewSettlementRecorded ==
  [][\A r \in Reqs :
       (/\ req[r].pc = "settle" /\ req'[r].pc = "done"
        /\ SettleKey(req[r]) \notin DOMAIN pagos)
         => LET key == SettleKey(req[r])
                dayKey == <<key[1], key[2]>>
                info == SettleInfo(req[r])
                old == DayOf(days, dayKey)
                new == DayOf(days', dayKey)
                full == JsTruthy(info.metadata.payFull)
            IN  /\ key \in DOMAIN pagos'
                /\ dayKey \in DOMAIN days'
                /\ new.count_total = old.count_total + 1
                /\ new.count_full = old.count_full + (IF full THEN 1 ELSE 0)
                /\ new.count_deposit = old.count_deposit + (IF full THEN 0 ELSE 1)
                /\ new.sum_total_charged
                     = old.sum_total_charged + TotalCharged(variant, info)
                /\ new.sum_commission
                     = old.sum_commission + Commission(variant, info.metadata)
                /\ new.sum_base_fraction
                     = old.sum_base_fraction + BaseFraction(variant, info.metadata)]_vars

\* C18: a delivery whose notification carries the type marker 'payment' and
\* a payment id, each of them in the query string or in the JSON body, is
\* recognised: the handler goes on to fetch the payment.
C18_RecognisedInAnyLocation ==
  \A r \in WebhookReqs :
    LET n == req[r].notif
    IN  (/\ (n.qType = "payment" \/ n.bType = "payment")
         /\ (Truthy(n.qDataId) \/ Truthy(n.bDataId)))
          => (req[r].pc = "fetch" \/ req[r].fetch # "none")

\* A check without facility, date, resource type or time.
LacksSlotKey(c) ==
  \/ ~Truthy(c.complejoId) \/ ~Truthy(c.fecha)
  \/ c.tipo.k = "undef" \/ ~Truthy(c.hora)

\* The requests whose approval has no resolvable slot key.
Unresolvable ==
  { r \in Reqs :
      \/ /\ req[r].kind = "webhook" /\ req[r].fetch = "ok"
         /\ ~Resolvable(PartsOf(req[r]))
      \/ /\ req[r].kind = "approve" /\ req[r].arg \in DOMAIN checks
         /\ LacksSlotKey(checks[req[r].arg]) }

\* C19: a request whose slot key cannot be resolved (a reference without its
\* four parts, a check without facility, date, resource type or time) runs
\* no booking transaction, writes no booking and records no settlement.
C19_UnresolvableRejected ==
  \A r \in Unresolvable :
    req[r].tx = "none" /\ req[r].wr = 0 /\ req[r].ws = "none"

\* A request that ended in a storage error: in its booking transaction, in
\* the update of the check after the booking committed, or in its settlement.
FailedInStorage(q) ==
  /\ q.pc = "done"
  /\ \/ q.tx = "error"
     \/ q.ws = "error"
     \/ q.kind = "approve" /\ q.tx = "ok" /\ q.ws = "none"

\* The settlement line items recorded for an approval id.
LineItemsFor(pid) == { key \in DOMAIN pagos : key[3] = pid }

\* C20: when an invocation for an approval id failed in a storage error and
\* the entrypoint was invoked again for the same id after it, the state in
\* which the second invocation ends without a storage error of its own
\* holds, if any of the invocations committed a booking for the id, exactly
\* one confirmed booking for the id and exactly one settlement line item.
C20_RetrySafety ==
  \A a, b \in Reqs :
    (/\ a < b /\ req[a].kind = req[b].kind /\ req[a].arg = req[b].arg
     /\ FailedInStorage(req[a])
     /\ req[b].pc = "done" /\ ~FailedInStorage(req[b])
     /\ (req[b].kind = "webhook" => req[b].fetch = "ok")
     /\ ConfirmedFor(ApprovalId(req[b])) # {})
      => /\ Cardinality(ConfirmedFor(ApprovalId(req[b]))) = 1
         /\ Cardinality(LineItemsFor(ApprovalId(req[b]))) = 1

\* The bookings a step sets to 'confirmada' (created so, or confirmed).
NewlyConfirmed ==
  { id \in DOMAIN reservas' :
      /\ reservas'[id].estado = "confirmada"
      /\ (id \in DOMAIN reservas => reservas[id].estado # "confirmada") }

\* C21: every step that sets a booking to 'confirmada' is the commit of a
\* booking transaction, which read the capacity and the confirmed occupancy
\* of the slot in the same step and found the slot not full.
C21_ConfirmOnlyInTransaction ==
  [][NewlyConfirmed # {} =>
       \E r \in Reqs :
         /\ req[r].pc = "confirm" /\ req'[r].tx = "ok"
         /\ req'[r].confirmadas < SlotCapacity]_vars

\* The counters of a daily aggregate.
Counters == {"count_total", "count_full", "count_deposit"}

\* C22: in every step each daily aggregate that exists stays, none of its
\* three counters decreases, and an aggregate is initialised only in the
\* step that creates it: it leaves that step with the first payment counted.
C22_DailyCountersMonotone ==
  [][/\ \A k \in DOMAIN days :
          /\ k \in DOMAIN days'
          /\ \A c \in Counters : days'[k][c] >= days[k][c]
     /\ \A k \in DOMAIN days' \ DOMAIN days :
          days'[k].count_total = 1]_vars

\* A daily aggregate received a second payment after its first.
C22_Witness ==
  \E k \in DOMAIN days :
    /\ days[k].count_total = 2
    /\ Cardinality({ p \in DOMAIN pagos : <<p[1], p[2]>> = k }) = 2

\* C23: in every step each settlement line item that exists stays and keeps
\* every field, whatever the operation: a delivery of the same or another
\* payment, a manual approval, a rejection, a settlement call, a failure.
C23_LineItemsImmutable ==
  [][\A key \in DOMAIN pagos :
       key \in DOMAIN pagos' /\ pagos'[key] = pagos[key]]_vars

\* A line item was written by one request, then a second settlement call
\* for the same payment was made by another and the line item is as written.
C23_Witness ==
  \E a, b \in Reqs :
    /\ req[b].ws = "recorded" /\ req[a].ws = "already"
    /\ SettleKey(req[a]) = SettleKey(req[b])
    /\ SettleKey(req[b]) \in DOMAIN pagos
    /\ pagos[SettleKey(req[b])].createdAt = 0
    /\ pagos[SettleKey(req[b])].status = "approved"

\* C24: in every step a booking that is 'confirmada' is 'confirmada' after
\* it, and every booking, check, settlement line item and daily aggregate
\* that exists before the step exists after it.
C24_ConfirmedTerminalNothingDeleted ==
  [][/\ \A id \in DOMAIN reservas :
          /\ id \in DOMAIN reservas'
          /\ reservas[id].estado = "confirmada"
               => reservas'[id].estado = "confirmada"
     /\ DOMAIN checks \subseteq DOMAIN checks'
     /\ DOMAIN pagos \subseteq DOMAIN pagos'
     /\ DOMAIN days \subseteq DOMAIN days']_vars

\* A booking confirmed by one request is still confirmed after another
\* request was rejected for capacity and a check was rejected, with the
\* ledger holding the payment.
C24_Witness ==
  \E a, b \in Reqs :
    /\ req[a].tx = "ok" /\ req[a].pc = "done"
    /\ reservas[req[a].id].estado = "confirmada"
    /\ req[b].pc = "done" /\ req[b].tx = "sin_cupos"
    /\ DOMAIN pagos # {} /\ DOMAIN days # {}

\* The preferences that were requested.
PreferenceReqs == { r \in Reqs : req[r].kind = "preference" }

\* The base a unit_price stands for: its number, 0 when it is not numeric,
\* 1000 when it is missing.
StatedBase(unit_price) ==
  IF unit_price.k = "undef" THEN 1000
  ELSE IF ToNumber(unit_price).k = "num" THEN ToNumber(unit_price).n ELSE 0

\* The percentage a deposit_pct stands for: its number, 30 when it is
\* missing, zero or not numeric.
StatedPct(deposit_pct) ==
  IF deposit_pct.k = "undef" THEN 30
  ELSE IF ToNumber(deposit_pct).k = "num" /\ ToNumber(deposit_pct).n # 0
         THEN ToNumber(deposit_pct).n ELSE 30

\* C25: every request for a preference is answered, and the amount sent to
\* the processor is a number, not negative, equal to the base (payFull) or
\* base * pct / 100 (otherwise) with a non-numeric unit_price taken as 0 and
\* a missing, zero or non-numeric deposit_pct as 30, plus the commission of
\* 1000 in the variants that add it (amounts in hundredths).
C25_PreferenceAmountDefaults ==
  \A r \in PreferenceReqs :
    LET q == req[r]
        base == StatedBase(q.unit_price)
        pct == StatedPct(q.deposit_pct)
    IN  /\ q.http \in {OkStatus, 500}
        /\ q.sent.k = "num"
        /\ q.sent.n >= 0
        /\ q.sent.n = (IF q.payFull THEN base * 100 ELSE base * pct)
                        + (IF variant = "v1" THEN 0 ELSE COMMISSION_FIXED * 100)

\* The provisional bookings of the slot, tipo stored as the number or as
\* its string.
ProvisionalInSlot ==
  { id \in DOMAIN reservas :
      /\ reservas[id].complejoId = "F" /\ reservas[id].fecha = "2024-05-01"
      /\ reservas[id].hora = "18:00" /\ reservas[id].tipo \in {Num(7), Str("7")}
      /\ reservas[id].estado \in {"pending", "pendiente"} }

\* C26: the step in which upsertConfirmedAtSlot succeeds changes exactly one
\* booking.  With a provisional booking of the slot under either
\* representation of tipo, one of them becomes 'confirmada' with the payment
\* and no booking is added; with none, one booking is added, 'confirmada'
\* with the payment, and every other booking is as before.
C26_LocateOrCreate ==
  [][\A r \in Reqs :
       (req[r].pc = "confirm" /\ req'[r].tx = "ok")
         => IF ProvisionalInSlot # {}
              THEN /\ Len(reservas') = Len(reservas)
                   /\ \E id \in ProvisionalInSlot :
                        /\ req'[r].id = id
                        /\ reservas'[id].estado = "confirmada"
                        /\ reservas'[id].pago.mp_payment_id = ApprovalId(req[r])
                        /\ \A j \in DOMAIN reservas \ {id} :
                             reservas'[j] = reservas[j]
              ELSE /\ Len(reservas') = Len(reservas) + 1
                   /\ req'[r].id = Len(reservas')
                   /\ reservas'[Len(reservas')].estado = "confirmada"
                   /\ reservas'[Len(reservas')].pago.mp_payment_id
                        = ApprovalId(req[r])
                   /\ \A j \in DOMAIN reservas : reservas'[j] = reservas[j]]_vars

\* The provisional booking stored with tipo "7" was located by a request
\* for tipo 7 and confirmed with its payment, the other booking confirmed
\* by another request, and no booking was added.
C26_Witness ==
  \E a, b \in Reqs :
    /\ Len(reservas) = 2
    /\ req[a].tx = "ok" /\ req[a].id = 2
    /\ reservas[2].tipo = Str("7") /\ reservas[2].estado = "confirmada"
    /\ reservas[2].pago.mp_payment_id = ApprovalId(req[a])
    /\ req[b].tx = "ok" /\ req[b].id = 1
    /\ reservas[1].pago.mp_payment_id = ApprovalId(req[b])

\* C27: the approved payment P1 names a slot with free capacity and its
\* notification is delivered again until a delivery is processed to the end;
\* then eventually a confirmed booking carries P1, the line item of P1
\* exists and the daily aggregate counts it.
C27_PipelineLiveness ==
  <>(/\ ConfirmedFor("P1") # {}
     /\ LineItemsFor("P1") # {}
     /\ DayOf(days, <<"F", "2024-05-01">>).count_total >= 1)

\* The booking b belongs to the slot: same facility, fecha and hora, and
\* tipo in either representation.
InSlot(b, slot) ==
  /\ b.complejoId = "F" /\ b.fecha = slot.fecha /\ b.hora = slot.hora
  /\ b.tipo \in {ToNumber(slot.tipo), Str(ToStr(slot.tipo))}

\* The bookings of a slot in a store, in document order.
BySlot(rs, slot) == SelectSeq(rs, LAMBDA b : InSlot(b, slot))

\* A confirmation for a slot on the store rs.
ConfirmOn(rs, slot, pid) ==
  upsertConfirmedAtSlot(complejos, rs, "F", slot.fecha, slot.tipo, slot.hora,
                        [pago |-> [mp_payment_id |-> pid, manual |-> FALSE]])

\* C28: the step of a confirmation for a slot leaves every booking of
\* another slot as it was and adds only a booking of its slot; its outcome
\* is the one it has on the bookings of its slot alone; and a confirmation
\* for another slot made just before it changes neither its outcome nor
\* what it does to its slot, and is not undone by it.
C28_SlotIndependence ==
  [][\A r \in Reqs :
       (req[r].kind = "idle" /\ req'[r].kind = "slot")
         => LET slot == req'[r].slot
                pid == req'[r].arg
            IN  /\ \A id \in DOMAIN reservas :
                     /\ id \in DOMAIN reservas'
                     /\ ~InSlot(reservas[id], slot) => reservas'[id] = reservas[id]
                /\ \A id \in DOMAIN reservas' \ DOMAIN reservas :
                     InSlot(reservas'[id], slot)
                /\ req'[r].out = ConfirmOn(BySlot(reservas, slot), slot, pid).out
                /\ \A other \in Slots \ {slot} :
                     LET first == ConfirmOn(reservas, other, "P3")
                         then == ConfirmOn(first.reservas, slot, pid)
                     IN  /\ then.out = req'[r].out
                         /\ BySlot(then.reservas, slot) = BySlot(reservas', slot)
                         /\ BySlot(then.reservas, other)
                              = BySlot(first.reservas, other)
                         /\ ConfirmOn(reservas', other, "P3").out = first.out
                         /\ BySlot(ConfirmOn(reservas', other, "P3").reservas, other)
                              = BySlot(first.reservas, other)]_vars

\* With capacity 1, a confirmation was accepted at 18:00 and one at 19:00,
\* and a third booking of type 5 is still provisional.
C28_Witness ==
  /\ complejos = <<>>
  /\ \E a, b \in Reqs :
       /\ req[a].kind = "slot" /\ req[b].kind = "slot"
       /\ req[a].slot.hora = "18:00" /\ req[b].slot.hora = "19:00"
       /\ req[a].slot.tipo = Str("7") /\ req[b].slot.tipo = Str("7")
       /\ req[a].out = "ok" /\ req[b].out = "ok"
       /\ reservas[req[a].id].hora = "18:00" /\ reservas[req[b].id].hora = "19:00"
  /\ \E id \in DOMAIN reservas :
       reservas[id].tipo = Num(5) /\ reservas[id].estado = "pending"

\* The sum of f over the set S.
RECURSIVE SumOver(_, _)
SumOver(f, S) ==
  IF S = {} THEN 0
  ELSE LET x == CHOOSE y \in S : TRUE IN f[x] + SumOver(f, S \ {x})

\* The settlement calls, those whose transaction committed, and the payment
\* each carried.
SettlementCalls == { r \in Reqs : req[r].kind = "settlement" }
SettlementsDone == { r \in SettlementCalls : req[r].ws = "recorded" }
PaymentOf(r) == MPPayment(req[r].arg, "approved")

\* C29: whatever the order in which concurrent settlement calls with
\* different payment ids ran, once all have completed the line items are
\* those of the calls that committed, count_total is their number, the two
\* other counters split it by payFull, and each sum is the sum of the
\* amounts of those calls.
C29_NoLostSettlementUpdate ==
  (\A r \in SettlementCalls : req[r].pc = "done")
    => LET D == DayOf(days, <<"F", "2024-05-01">>)
           full == { r \in SettlementsDone : JsTruthy(PaymentOf(r).metadata.payFull) }
           total == [r \in SettlementsDone |-> TotalCharged(variant, PaymentOf(r))]
           comm == [r \in SettlementsDone |-> Commission(variant, PaymentOf(r).metadata)]
           base == [r \in SettlementsDone |-> BaseFraction(variant, PaymentOf(r).metadata)]
       IN  /\ DOMAIN pagos
                = { <<"F", "2024-05-01", req[r].arg>> : r \in SettlementsDone }
           /\ D.count_total = Cardinality(SettlementsDone)
           /\ D.count_full = Cardinality(full)
           /\ D.count_deposit = Cardinality(SettlementsDone \ full)
           /\ D.sum_total_charged = SumOver(total, SettlementsDone)
           /\ D.sum_commission = SumOver(comm, SettlementsDone)
           /\ D.sum_base_fraction = SumOver(base, SettlementsDone)
           /\ D.sum_net_to_complex = SumOver(base, SettlementsDone)

\* Two calls ran concurrently, the one made second committed first, and
\* the aggregate holds both: a full payment and a deposit.
C29_Witness ==
  \E a, b \in SettlementsDone :
    /\ a < b /\ req[a].arg = "P1" /\ req[b].arg = "P2"
    /\ pagos[<<"F", "2024-05-01", "P2">>].createdAt = 0
    /\ pagos[<<"F", "2024-05-01", "P1">>].createdAt = 1
    /\ days[<<"F", "2024-05-01">>].count_total = 2
    /\ days[<<"F", "2024-05-01">>].count_deposit = 1

\* C30: an approve or a reject invoked on a check that does not exist or is
\* not 'pending' is answered with an error in that very step, which changes
\* no booking, no check and no settlement document; and a request that was
\* answered takes no further step.
C30_NotPendingChangesNothing ==
  [][\A r \in Reqs :
       /\ (/\ req[r].kind = "idle"
           /\ req'[r].kind \in {"approve", "reject"}
           /\ ~(/\ req'[r].arg \in DOMAIN checks
                /\ checks[req'[r].arg].estado = "pending"))
            => /\ req'[r].pc = "done"
               /\ req'[r].http = 400
               /\ req'[r].wr = 0 /\ req'[r].ws = "none" /\ req'[r].tx = "none"
               /\ reservas' = reservas /\ checks' = checks
               /\ pagos' = pagos /\ days' = days
       /\ (req[r].kind \in {"approve", "reject"} /\ req[r].pc = "done")
            => req'[r] = req[r]]_vars

\* An approve of a check that had been rejected was refused with the
\* message of a check that is not pending, and nothing was written for it.
C30_Witness ==
  \E a, b \in Reqs :
    /\ req[a].kind = "reject" /\ req[a].arg = "K1" /\ req[a].http = OkStatus
    /\ req[b].kind = "approve" /\ req[b].arg = "K1" /\ req[b].pc = "done"
    /\ req[b].http = 400 /\ req[b].tx = "none"
    /\ checks["K1"].estado = "rejected"
    /\ ErrorMessage(req[b]) = "El check no esta pendiente"
    /\ pagos = <<>> /\ days = <<>>
    /\ \A id \in DOMAIN reservas : reservas[id].pago.mp_payment_id # "manual_K1"

\* C31: in every daily settlement document sum_net_to_complex equals
\* sum_base_fraction.
C31_NetEqualsBaseFraction ==
  \A k \in DOMAIN days : days[k].sum_net_to_complex = days[k].sum_base_fraction

\* A daily aggregate holds a payment whose base fraction is positive and
\* whose commission is not zero.
C31_Witness ==
  \E k \in DOMAIN days :
    /\ days[k].count_total >= 1
    /\ days[k].sum_base_fraction > 0
    /\ days[k].sum_commission > 0
    /\ days[k].sum_net_to_complex = days[k].sum_base_fraction

\* C32: whatever the interleaving of approve and reject requests on a
\* check, a step changes the estado of a check only from 'pending', and a
\* check that is 'rejected' after a step has no confirmed booking and no
\* settlement line item carrying manual_<checkId>.
C32_CheckDecisionFinal ==
  [][\A k \in DOMAIN checks :
       /\ checks[k].estado # "pending" => checks'[k].estado = checks[k].estado
       /\ checks'[k].estado = "rejected"
            => /\ \A id \in DOMAIN reservas' :
                    ~(/\ reservas'[id].estado = "confirmada"
                      /\ reservas'[id].pago.mp_payment_id = ManualId(k))
               /\ \A key \in DOMAIN pagos' : key[3] # ManualId(k)]_vars

\* No other request decides the check of the approve request a.
AloneOnCheck(a) ==
  \A o \in Reqs \ {a} :
    req[o].kind \in {"approve", "reject"} => req[o].arg # req[a].arg

\* C33: an approve answered with an error confirmed no booking and recorded
\* no settlement, and its check, if it exists and no other request decided
\* it, is as it was; an approve answered with success left its booking
\* confirmed, the line item manual_<checkId> recorded and the check
\* 'approved'.
C33_ApproveAllOrNothing ==
  \A a \in ApproveDone :
    IF req[a].http = OkStatus
      THEN /\ req[a].id \in DOMAIN reservas
           /\ reservas[req[a].id].estado = "confirmada"
           /\ LineItemsFor(ManualId(req[a].arg)) # {}
           /\ AloneOnCheck(a) => checks[req[a].arg].estado = "approved"
      ELSE /\ req[a].wr = 0
           /\ req[a].ws # "recorded"
           /\ (AloneOnCheck(a) /\ req[a].arg \in DOMAIN checks)
                => checks[req[a].arg].estado = "pending"

\* The line items of the pagos subcollection of a daily aggregate.
LineItemsOf(k) == { key \in DOMAIN pagos : <<key[1], key[2]>> = k }

\* C34: in every daily settlement document count_total is count_full plus
\* count_deposit and is the number of line items of its pagos
\* subcollection, and every line item lies under such a document.
C34_LedgerConsistency ==
  /\ \A k \in DOMAIN days :
       /\ days[k].count_total = days[k].count_full + days[k].count_deposit
       /\ days[k].count_total = Cardinality(LineItemsOf(k))
       /\ days[k].count_full
            = Cardinality({ key \in LineItemsOf(k) : pagos[key].payFull })
  /\ \A key \in DOMAIN pagos : <<key[1], key[2]>> \in DOMAIN days

\* A daily aggregate holds a full payment and a deposit, each with its line
\* item.
C34_Witness ==
  \E k \in DOMAIN days :
    /\ days[k].count_full = 1 /\ days[k].count_deposit = 1
    /\ Cardinality(LineItemsOf(k)) = 2

\* The confirmed bookings of a facility and date.
ConfirmedOn(complejoId, fecha) ==
  { id \in DOMAIN reservas :
      /\ reservas[id].estado = "confirmada"
      /\ reservas[id].complejoId = complejoId /\ reservas[id].fecha = fecha }

\* C35: every settlement line item with payment id P under a facility and
\* date has a confirmed booking of that facility and date whose
\* pago.mp_payment_id is P, and the line items of a day are not more than
\* its confirmed bookings.
C35_LineItemBackedByBooking ==
  /\ \A key \in DOMAIN pagos :
       \E id \in ConfirmedOn(key[1], key[2]) :
         reservas[id].pago.mp_payment_id = key[3]
  /\ \A k \in DOMAIN days :
       Cardinality(LineItemsOf(k)) <= Cardinality(ConfirmedOn(k[1], k[2]))

\* C36: for every stored set of confirmed bookings of the slot, under
\* either representation of tipo, the decision confirmadas >= capacidad
\* taken from the count of the limited queries is the decision taken from
\* the number of confirmed bookings of the slot.
C36_TruncatedCountDecides ==
  \A a \in CallsOf("confirmadas") :
    SinCupos(req[a].out, SlotCapacity)
      <=> SinCupos(Cardinality(ConfirmedInSlot), SlotCapacity)

\* The limited queries returned fewer bookings than the slot holds, under
\* both representations of tipo, and the slot was found full.
C36_Witness ==
  \E a \in CallsOf("confirmadas") :
    /\ StoredAs(Num(7)) > SlotCapacity + 2
    /\ StoredAs(Str("7")) > SlotCapacity + 2
    /\ req[a].out < Cardinality(ConfirmedInSlot)
    /\ SinCupos(req[a].out, SlotCapacity)

==========================================================================
